---- MODULE Spec2Model ----
(***************************************************************************)
(* ECGBasic.export_scp (ecg2scp.py): serialisation of a multi-lead ECG     *)
(* recording into an SCP-ECG file.  Byte strings are sequences of numbers  *)
(* 0..255.  The export is modelled statement block by statement block, in  *)
(* the order of the source; the position in the method is pc.              *)
(***************************************************************************)
EXTENDS Integers, Sequences, FiniteSets, TLC

VARIABLES
    data,             \* self.data: the (leads x samples) array, see Sample
    patient_name,     \* self.patient_name (character codes)
    patient_sex,      \* self.patient_sex
    patient_weight,   \* self.patient_weight
    patient_age,      \* self.patient_age
    s,                \* s: section id -> payload bytes
    size,             \* size
    scp_ecg,          \* scp_ecg
    crc,              \* crc (2 bytes)
    pc,               \* position in export_scp
    exc,              \* exception that left export_scp, or "none"
    raisedIn,         \* position at which it was raised, or "none"
    file,             \* what the target path holds
    file0             \* what the target path held when export_scp was called

vars == <<data, patient_name, patient_sex, patient_weight,
          patient_age, s, size, scp_ecg, crc, pc, exc, raisedIn, file, file0>>

\* The array is held by its shape and its content in sparse form: every sample
\* is data.fill, except the one at data.at = <<lead, sample>> (1-based; <<0, 0>>
\* for none), which is data.value.
Sample(d, i, j) == IF <<i, j>> = d.at THEN d.value ELSE d.fill

\* the properties n_leads and n_samples
n_leads == data.leads
n_samples == data.samples

-----------------------------------------------------------------------------
(* Bounds of the model.                                                    *)

MaxLeads == 2          \* small recordings: lead count
MaxSamples == 2        \* small recordings: samples per lead
MaxExtraLeads == 1     \* leads beyond the lead table
MaxExcess == 1         \* samples beyond the series cap
MaxOldFileLen == 1     \* length of the file found at the target path

-----------------------------------------------------------------------------
(* Byte-level helpers: struct.pack and the concatenation of byte strings.  *)

Pow256(k) == IF k = 0 THEN 1 ELSE IF k = 1 THEN 256 ELSE IF k = 2 THEN 65536 ELSE 16777216

\* struct.pack('<B' | '<H' | '<I', v): k little-endian bytes of unsigned v
PackLE(v, k) == [b \in 1..k |-> (v \div Pow256(b - 1)) % 256]

\* the range struct.pack accepts for an unsigned field of k bytes (every number of
\* the model is below 2^31, so it fits 4 bytes)
FitsUnsigned(v, k) == v >= 0 /\ (k >= 4 \/ v < Pow256(k))

\* inverse of PackLE, for reading a field of k = 1, 2 or 4 bytes back
UnpackLE(bytes, at, k) ==
    IF k = 1 THEN bytes[at]
    ELSE IF k = 2 THEN bytes[at] + 256 * bytes[at + 1]
    ELSE bytes[at] + 256 * bytes[at + 1] + 65536 * bytes[at + 2] + 16777216 * bytes[at + 3]

INT16_MIN == -32768
INT16_MAX == 32767

\* variant: the value is reduced modulo 2^16 instead of being refused
FitsInt16Wrapping(v) == v = v

\* the range struct.pack('<h', v) accepts; outside it raises struct.error
FitsInt16(v) == v >= INT16_MIN /\ v <= INT16_MAX

\* struct.pack('<h', v): two's complement, little-endian
PackInt16(v) == PackLE(IF v < 0 THEN v + 65536 ELSE v, 2)

\* reading a '<h' value back
UnpackInt16(bytes, at) ==
    LET u == UnpackLE(bytes, at, 2) IN IF u >= 32768 THEN u - 65536 ELSE u

Zeros(k) == [b \in 1..k |-> 0]

-----------------------------------------------------------------------------
(* binascii.crc_hqx: CRC-CCITT, polynomial 0x1021, most significant bit    *)
(* first, no final xor; table driven, one table lookup per byte.           *)

RECURSIVE XorBits(_, _, _)
XorBits(a, b, n) ==
    IF n = 0 THEN 0
    ELSE (((a % 2) + (b % 2)) % 2) + 2 * XorBits(a \div 2, b \div 2, n - 1)

Xor8Table == [a \in 0..255 |-> [b \in 0..255 |-> XorBits(a, b, 8)]]

Xor16(a, b) == 256 * Xor8Table[a \div 256][b \div 256] + Xor8Table[a % 256][b % 256]

CRC_POLY == 4129   \* 0x1021

RECURSIVE CrcShift(_, _)
CrcShift(r, k) ==
    IF k = 0 THEN r
    ELSE CrcShift(IF r >= 32768 THEN Xor16((r * 2) % 65536, CRC_POLY)
                                ELSE (r * 2) % 65536, k - 1)

CrcTable == [x \in 0..255 |-> CrcShift(x * 256, 8)]

CrcByte(reg, byte) ==
    Xor16((reg % 256) * 256, CrcTable[Xor8Table[reg \div 256][byte]])

\* the register after bytes[lo..hi], starting from reg
RECURSIVE CrcRange(_, _, _, _)
CrcRange(reg, bytes, lo, hi) ==
    IF lo > hi THEN reg
    ELSE IF lo = hi THEN CrcByte(reg, bytes[lo])
    ELSE LET mid == (lo + hi) \div 2
             left == CrcRange(reg, bytes, lo, mid)
         IN IF left >= 0 THEN CrcRange(left, bytes, mid + 1, hi) ELSE left

crc_hqx(bytes, value) == CrcRange(value, bytes, 1, Len(bytes))

-----------------------------------------------------------------------------
(* The primitives and constants of the ecg_scp module, which export_scp    *)
(* imports as scp.  Its text is not part of the source at hand; they are   *)
(* modelled from their contracts in the specification (section 6), with    *)
(* the byte widths of the SCP-ECG layout.                                  *)

SCPECG_HEADER_LEN == 4     \* "size (4-byte length of everything after the CRC field)"
SECTION_HEADER_LEN == 16
POINTER_FIELD_LEN == 10

\* fixed-width pointer entry: section id, length, index
make_pointer_field(sect_id, length, index) ==
    PackLE(sect_id, 2) \o PackLE(length, 4) \o PackLE(index, 4)

\* tag / length / value
make_tag(tag, value) == PackLE(tag, 1) \o PackLE(Len(value), 2) \o value

\* null-terminated string
make_asciiz(str) == str \o <<0>>

\* fixed-width value + unit
make_3bytes_intval_unit(val, unit) == PackLE(val, 2) \o PackLE(unit, 1)

make_date(t) == PackLE(t.year, 2) \o PackLE(t.month, 1) \o PackLE(t.day, 1)

make_time(t) == PackLE(t.hour, 1) \o PackLE(t.minute, 1) \o PackLE(t.second, 1)

\* device identifier: determined by the string alone
make_machine_id(str) == make_asciiz(str)

\* payload prefixed with the section header (id + length)
pack_section(sect_id, payload) ==
    PackLE(sect_id, 2) \o PackLE(SECTION_HEADER_LEN + Len(payload), 4)
        \o Zeros(SECTION_HEADER_LEN - 6) \o payload

TAG_PATIENT_LAST_NAME == 0
TAG_PATIENT_ID == 2
TAG_PATIENT_AGE == 4
TAG_PATIENT_WEIGHT == 7
TAG_PATIENT_SEX == 8
TAG_ACQ_DEV_ID == 14
TAG_DATE_ACQ == 25
TAG_TIME_ACQ == 26
TAG_ECG_SEQ_NUM == 31
TAG_EOF == 255
SEX_UNKNOWN == 0
SEX_MALE == 1
SEX_FEMALE == 2
WEIGHT_UNSPECIFIED == 0
WEIGHT_KILOGRAM == 1
AGE_UNSPECIFIED == 0
AGE_YEARS == 1
ALL_SIMULTANEOUS_READ == 4
ENCODING_REAL == 0
BIMODAL_COMPRESSION_FALSE == 0

\* standard lead codes of I, II, III, aVR, aVL, aVF, V1..V6
LEAD_CODES == <<1, 2, 61, 62, 63, 64, 3, 4, 5, 6, 7, 8>>

-----------------------------------------------------------------------------
(* Module-level table and the attributes set by ECGBasic.__init__.         *)

\* LEADS_ORDER_GENERAL: keys 0..11; entry i of the source is LEADS_ORDER_GENERAL[i + 1]
LEADS_ORDER_GENERAL == LEAD_CODES

\* i in LEADS_ORDER_GENERAL; a lookup outside raises KeyError
HasLead(i) == i + 1 \in DOMAIN LEADS_ORDER_GENERAL

sample_rate == 500
ampl_nanovolt == 5000
timestamp == [year |-> 2022, month |-> 1, day |-> 1, hour |-> 1, minute |-> 1, second |-> 1]

\* "anonymized", "unknown_case", "unknown_machine"
DefaultName == <<97, 110, 111, 110, 121, 109, 105, 122, 101, 100>>
patient_case == <<117, 110, 107, 110, 111, 119, 110, 95, 99, 97, 115, 101>>
MachineName == <<117, 110, 107, 110, 111, 119, 110, 95, 109, 97, 99, 104, 105, 110, 101>>

SectionIds == 0..11

-----------------------------------------------------------------------------
(* Section #0 - Section Pointers, as computed from the dict s at hand.     *)

\* length written in the pointer entry of sect_id
PointerLength(sec, sect_id) ==
    IF sect_id = 0 THEN SECTION_HEADER_LEN + POINTER_FIELD_LEN * 12
    ELSE IF Len(sec[sect_id]) > 0 THEN Len(sec[sect_id]) + SECTION_HEADER_LEN
    ELSE 0

\* index written in the pointer entry of sect_id: the running cursor
RECURSIVE PointerIndex(_, _)
PointerIndex(sec, sect_id) ==
    IF sect_id = 0 THEN SCPECG_HEADER_LEN + 1
    ELSE PointerIndex(sec, sect_id - 1) + PointerLength(sec, sect_id - 1)

\* the pointer fields of sections 0..sect_id
RECURSIVE PointerFields(_, _)
PointerFields(sec, sect_id) ==
    LET field == make_pointer_field(sect_id, PointerLength(sec, sect_id),
                                    PointerIndex(sec, sect_id))
    IN IF sect_id = 0 THEN field ELSE PointerFields(sec, sect_id - 1) \o field

Section0(sec) == PointerFields(sec, 11)

-----------------------------------------------------------------------------
(* Section #1 - Patient Data.                                              *)

SexCode(sex) == IF sex = 1 THEN SEX_MALE ELSE IF sex = 0 THEN SEX_FEMALE ELSE SEX_UNKNOWN

WeightUnit(weight) == IF weight = 0 THEN WEIGHT_UNSPECIFIED ELSE WEIGHT_KILOGRAM

AgeUnit(age) == IF age = 0 THEN AGE_UNSPECIFIED ELSE AGE_YEARS

Section1(name, sex, weight, age) ==
    make_tag(TAG_PATIENT_ID, make_asciiz(name))
    \o make_tag(TAG_ECG_SEQ_NUM, make_asciiz(patient_case))
    \o make_tag(TAG_PATIENT_LAST_NAME, make_asciiz(name))
    \o make_tag(TAG_PATIENT_SEX, PackLE(SexCode(sex), 1))
    \o make_tag(TAG_PATIENT_WEIGHT, make_3bytes_intval_unit(weight, WeightUnit(weight)))
    \o make_tag(TAG_PATIENT_AGE, make_3bytes_intval_unit(age, AgeUnit(age)))
    \o make_tag(TAG_DATE_ACQ, make_date(timestamp))
    \o make_tag(TAG_TIME_ACQ, make_time(timestamp))
    \o make_tag(TAG_ACQ_DEV_ID, make_machine_id(MachineName))
    \o make_tag(TAG_EOF, <<>>)

-----------------------------------------------------------------------------
(* Section #3 - ECG Lead Definition.                                       *)

\* flag_byte: ALL_SIMULTANEOUS_READ | (leads_number << 3); bit 2 of the shifted
\* count is clear, so the bitwise or is a sum
FlagByte(leads_number) == ALL_SIMULTANEOUS_READ + leads_number * 8

\* variant: the ending sample is the capped sample count of Section #6
RECURSIVE LeadEntriesCapped(_, _)
LeadEntriesCapped(k, total_samples) ==
    IF k = 0 THEN <<>>
    ELSE LeadEntriesCapped(k - 1, total_samples)
         \o PackLE(1, 4) \o PackLE(IF total_samples < 32767 THEN total_samples ELSE 32767, 4)
         \o PackLE(LEAD_CODES[k], 1)

\* the entries of leads 0..k-1: starting sample, ending sample, lead id
RECURSIVE LeadEntries(_, _)
LeadEntries(k, total_samples) ==
    IF k = 0 THEN <<>>
    ELSE LeadEntries(k - 1, total_samples)
         \o PackLE(1, 4) \o PackLE(total_samples, 4) \o PackLE(LEADS_ORDER_GENERAL[k], 1)

\* how many leads the loop gets through before LEADS_ORDER_GENERAL[i] raises
LeadsLookedUp(leads_number) ==
    IF HasLead(leads_number - 1) \/ leads_number = 0 THEN leads_number
    ELSE Len(LEADS_ORDER_GENERAL)

\* s[3] as far as it is built: all of it, or what precedes the failing pack or lookup
Section3(leads_number, total_samples) ==
    IF ~FitsUnsigned(leads_number, 1) THEN <<>>
    ELSE IF ~FitsUnsigned(FlagByte(leads_number), 1) THEN PackLE(leads_number, 1)
    ELSE PackLE(leads_number, 1) \o PackLE(FlagByte(leads_number), 1)
         \o LeadEntries(LeadsLookedUp(leads_number), total_samples)

\* variant: a lookup with a default, which never raises
Section3ErrorSwallowed(leads_number) == IF leads_number >= 0 THEN "none" ELSE "KeyError"

\* the exception raised while Section #3 is built, or "none"
Section3Error(leads_number) ==
    IF ~FitsUnsigned(leads_number, 1) \/ ~FitsUnsigned(FlagByte(leads_number), 1)
    THEN "struct.error"
    ELSE IF LeadsLookedUp(leads_number) < leads_number THEN "KeyError"
    ELSE "none"

-----------------------------------------------------------------------------
(* Section #6 - Rhythm data.                                               *)

\* max_samples = int(0xffff / 2)
MAX_SAMPLES == 32767

Min(a, b) == IF a < b THEN a ELSE b

\* variant: no cap
UncappedSamples(total_samples) == total_samples

\* n_samples = min(self.n_samples, max_samples)
CappedSamples(total_samples) == Min(total_samples, MAX_SAMPLES)

\* bytes_to_store = int(n_samples * 2)
BytesToStore(total_samples) == CappedSamples(total_samples) * 2

\* sample_time_interval = int(1e6 / self.sample_rate)
SampleTimeInterval == 1000000 \div sample_rate

Section6Header ==
    PackLE(ampl_nanovolt, 2) \o PackLE(SampleTimeInterval, 2)
    \o PackLE(ENCODING_REAL, 1) \o PackLE(BIMODAL_COMPRESSION_FALSE, 1)

\* one bytes_to_store field per lead
SeriesLengths(leads_number, total_samples) ==
    [b \in 1..(2 * leads_number) |->
        PackLE(BytesToStore(total_samples), 2)[((b - 1) % 2) + 1]]

\* serie of lead i: its first n samples, '<h' each
Serie(d, i, n) ==
    [b \in 1..(2 * n) |-> PackInt16(Sample(d, i, (b + 1) \div 2))[((b - 1) % 2) + 1]]

\* struct.pack('<h', ...) raises on some sample of the first n of lead i
SerieRaises(d, i, n) == \E j \in 1..n : ~FitsInt16(Sample(d, i, j))

\* leads whose serie is completed before one raises (all of them if none does)
RECURSIVE SeriesDone(_, _, _)
SeriesDone(d, n, i) ==
    IF i > d.leads THEN d.leads
    ELSE IF SerieRaises(d, i, n) THEN i - 1
    ELSE SeriesDone(d, n, i + 1)

\* the series of leads 1..k, concatenated
RECURSIVE Series(_, _, _)
Series(d, n, k) == IF k = 0 THEN <<>> ELSE Series(d, n, k - 1) \o Serie(d, k, n)

\* s[6] as far as it is built: all of it, or what precedes the failing pack
Section6(d, leads_number, total_samples) ==
    Section6Header \o SeriesLengths(leads_number, total_samples)
    \o Series(d, CappedSamples(total_samples),
              SeriesDone(d, CappedSamples(total_samples), 1))

\* the exception raised while Section #6 is built, or "none"
Section6Error(d, total_samples) ==
    IF SeriesDone(d, CappedSamples(total_samples), 1) < d.leads THEN "struct.error"
    ELSE "none"

-----------------------------------------------------------------------------
(* SCP-ECG record: size, then the packed sections.                         *)

\* the ids the size loop and the packing loop run over
RECORD_SECTIONS == <<0, 1, 2, 3, 6>>

\* variant: the section headers are left out of the size
RECURSIVE RecordSizeOfPayloads(_, _)
RecordSizeOfPayloads(sec, k) ==
    IF k = 0 THEN SCPECG_HEADER_LEN
    ELSE RecordSizeOfPayloads(sec, k - 1) + Len(sec[RECORD_SECTIONS[k]])

\* size after the first k ids of the loop
RECURSIVE RecordSize(_, _)
RecordSize(sec, k) ==
    IF k = 0 THEN SCPECG_HEADER_LEN
    ELSE RecordSize(sec, k - 1)
         + (IF Len(sec[RECORD_SECTIONS[k]]) > 0
            THEN SECTION_HEADER_LEN + Len(sec[RECORD_SECTIONS[k]]) ELSE 0)

\* the packed sections of the first k ids of the loop
RECURSIVE PackedSections(_, _)
PackedSections(sec, k) ==
    IF k = 0 THEN <<>>
    ELSE PackedSections(sec, k - 1)
         \o (IF Len(sec[RECORD_SECTIONS[k]]) > 0
             THEN pack_section(RECORD_SECTIONS[k], sec[RECORD_SECTIONS[k]]) ELSE <<>>)

SizeOf(sec) == RecordSize(sec, Len(RECORD_SECTIONS))

ScpEcg(sec, sz) == PackLE(sz, 4) \o PackedSections(sec, Len(RECORD_SECTIONS))

\* crc = struct.pack('<H', binascii.crc_hqx(scp_ecg, 0xffff))
CRC_INIT == 65535

\* variant: the checksum skips the size field
CrcOfSections(record) ==
    PackLE(crc_hqx(SubSeq(record, SCPECG_HEADER_LEN + 1, Len(record)), CRC_INIT), 2)

Crc(record) == PackLE(crc_hqx(record, CRC_INIT), 2)

\* what f.write is given
FileBytes(c, record) == c \o record

-----------------------------------------------------------------------------
(* The inputs: recordings, metadata, and what the target path holds.       *)

\* The recordings considered: every sample has one value of the signed 16-bit
\* range (-1 or 258), except at most one marked sample, whose value is at or
\* just past an end of that range.
BaseValues == {-1, 258}
MarkValues == {INT16_MIN - 1, INT16_MIN, INT16_MAX, INT16_MAX + 1}

\* leads x samples array, every sample b except sample mj of lead mi, which is v
MarkedData(leads, samples, b, mi, mj, v) ==
    [leads |-> leads, samples |-> samples, fill |-> b, at |-> <<mi, mj>>,
     value |-> IF mi = 0 THEN b ELSE v]

Recordings(leadCounts, sampleCounts, bases, markedSamples, markValues) ==
    { MarkedData(q[1], q[2], q[3], q[4], q[5], q[6]) :
        q \in { r \in leadCounts \X sampleCounts \X bases \X (0..MaxLeads + 1)
                        \X markedSamples \X markValues :
                /\ r[4] <= r[1]
                /\ r[5] <= r[2]
                /\ (r[4] = 0) = (r[5] = 0)
                /\ r[1] * r[2] = 0 => r[3] = 258 } }

SmallRecordings ==
    Recordings(0..MaxLeads, 0..MaxSamples, BaseValues, 0..MaxSamples, MarkValues)

\* more leads than LEADS_ORDER_GENERAL has keys
OverTableRecordings ==
    Recordings((Len(LEADS_ORDER_GENERAL) + 1)..(Len(LEADS_ORDER_GENERAL) + MaxExtraLeads),
               0..1, BaseValues, 0..1, MarkValues)

\* one lead with about max_samples samples; the marked sample, if any, is the
\* last one that is stored or the first one that is not
LongRecordings ==
    Recordings({1}, (MAX_SAMPLES - 1)..(MAX_SAMPLES + MaxExcess), {258},
               {0, MAX_SAMPLES, MAX_SAMPLES + 1}, {INT16_MIN, INT16_MAX + 1})

DefaultMeta == [name |-> DefaultName, sex |-> 0, weight |-> 0, age |-> 0]

Metas == {DefaultMeta,
          [name |-> <<97>>, sex |-> 1, weight |-> 70, age |-> 45],
          [name |-> <<>>, sex |-> 2, weight |-> 0, age |-> 45]}

NoFile == [exists |-> FALSE, bytes |-> <<>>]

OldFile(k) == [exists |-> TRUE, bytes |-> [b \in 1..k |-> 7]]

OldFiles == {NoFile} \cup {OldFile(k) : k \in 0..MaxOldFileLen}

Inputs ==
    (SmallRecordings \X Metas \X OldFiles)
    \cup (OverTableRecordings \X {DefaultMeta} \X {OldFile(MaxOldFileLen)})

LongInputs == LongRecordings \X {DefaultMeta} \X {OldFile(MaxOldFileLen)}

-----------------------------------------------------------------------------
(* The state machine.                                                      *)

EmptySections == [sect_id \in SectionIds |-> <<>>]

\* export_scp is called on an object holding one of the given inputs
Called(given) ==
    /\ \E in \in given :
        /\ data = in[1]
        /\ patient_name = in[2].name
        /\ patient_sex = in[2].sex
        /\ patient_weight = in[2].weight
        /\ patient_age = in[2].age
        /\ file = in[3]
        /\ file0 = in[3]
    /\ s = EmptySections
    /\ size = 0
    /\ scp_ecg = <<>>
    /\ crc = <<>>
    /\ pc = "sections"
    /\ exc = "none"
    /\ raisedIn = "none"

Init == Called(Inputs)

\* the same, the recordings around max_samples samples included
InitLong == Called(Inputs \cup LongInputs)

inputs == <<data, patient_name, patient_sex, patient_weight,
            patient_age, file0>>

Raise(kind) ==
    /\ exc' = kind
    /\ raisedIn' = pc
    /\ pc' = "raised"

Goto(next) ==
    /\ pc' = next
    /\ UNCHANGED <<exc, raisedIn>>

\* s = {}; for sect_id in range(0, 12): s[sect_id] = b''
CreateSections ==
    /\ pc = "sections"
    /\ s' = EmptySections
    /\ Goto("sect0")
    /\ UNCHANGED <<inputs, size, scp_ecg, crc, file>>

\* Prepare Section #0 - Section Pointers
PrepareSection0 ==
    /\ pc = "sect0"
    /\ s' = [s EXCEPT ![0] = Section0(s)]
    /\ Goto("sect1")
    /\ UNCHANGED <<inputs, size, scp_ecg, crc, file>>

\* Prepare Section #1 - Patient Data
PrepareSection1 ==
    /\ pc = "sect1"
    /\ s' = [s EXCEPT ![1] = Section1(patient_name, patient_sex, patient_weight, patient_age)]
    /\ Goto("sect3")
    /\ UNCHANGED <<inputs, size, scp_ecg, crc, file>>

\* Prepare Section #3 - ECG Lead Definition
PrepareSection3 ==
    /\ pc = "sect3"
    /\ s' = [s EXCEPT ![3] = Section3(n_leads, n_samples)]
    /\ IF Section3Error(n_leads) = "none" THEN Goto("sect6")
       ELSE Raise(Section3Error(n_leads))
    /\ UNCHANGED <<inputs, size, scp_ecg, crc, file>>

\* Prepare Section #6 - Rhythm data
PrepareSection6 ==
    /\ pc = "sect6"
    /\ s' = [s EXCEPT ![6] = Section6(data, n_leads, n_samples)]
    /\ IF Section6Error(data, n_samples) = "none" THEN Goto("record")
       ELSE Raise(Section6Error(data, n_samples))
    /\ UNCHANGED <<inputs, size, scp_ecg, crc, file>>

\* Prepare SCP-ECG Record: size and scp_ecg
PrepareRecord ==
    /\ pc = "record"
    /\ size' = SizeOf(s)
    /\ scp_ecg' = ScpEcg(s, SizeOf(s))
    /\ Goto("crc")
    /\ UNCHANGED <<inputs, s, crc, file>>

\* crc = struct.pack('<H', binascii.crc_hqx(scp_ecg, 0xffff))
ComputeCrc ==
    /\ pc = "crc"
    /\ crc' = Crc(scp_ecg)
    /\ Goto("open")
    /\ UNCHANGED <<inputs, s, size, scp_ecg, file>>

\* open(filename, "wb"): creates the file or truncates it to length 0
OpenFile ==
    /\ pc = "open"
    /\ file' = [exists |-> TRUE, bytes |-> <<>>]
    /\ Goto("write")
    /\ UNCHANGED <<inputs, s, size, scp_ecg, crc>>

\* open(filename, "wb") raises (permission denied, invalid path): nothing is touched
OpenFileFails ==
    /\ pc = "open"
    /\ Raise("OSError")
    /\ UNCHANGED <<inputs, s, size, scp_ecg, crc, file>>

\* f.write(crc + scp_ecg) and the close at the end of the with block
WriteFile ==
    /\ pc = "write"
    /\ file' = [exists |-> TRUE, bytes |-> FileBytes(crc, scp_ecg)]
    /\ Goto("return")
    /\ UNCHANGED <<inputs, s, size, scp_ecg, crc>>

\* how much of the stream is on disk when the write or the flush at close fails
PartialLengths(total) ==
    {k \in {0, 2, SCPECG_HEADER_LEN + 2, total \div 2, total - 1} : k >= 0 /\ k < total}

\* the write fails part-way (disk full, I/O error): a prefix has reached the file
WriteFileFails ==
    /\ pc = "write"
    /\ \E k \in PartialLengths(Len(FileBytes(crc, scp_ecg))) :
        file' = [exists |-> TRUE, bytes |-> SubSeq(FileBytes(crc, scp_ecg), 1, k)]
    /\ Raise("OSError")
    /\ UNCHANGED <<inputs, s, size, scp_ecg, crc>>

\* return filename
Return ==
    /\ pc = "return"
    /\ Goto("returned")
    /\ UNCHANGED <<inputs, s, size, scp_ecg, crc, file>>

Next ==
    \/ CreateSections
    \/ PrepareSection0
    \/ PrepareSection1
    \/ PrepareSection3
    \/ PrepareSection6
    \/ PrepareRecord
    \/ ComputeCrc
    \/ OpenFile
    \/ OpenFileFails
    \/ WriteFile
    \/ WriteFileFails
    \/ Return

Spec == Init /\ [][Next]_vars

SpecLong == InitLong /\ [][Next]_vars

-----------------------------------------------------------------------------
(* Reading the built byte strings back.                                    *)

\* program positions after Section #6 has been built without an exception
AfterSection6 == {"record", "crc", "open", "write", "return", "returned"}

\* program positions at which scp_ecg has been assembled
AfterRecord == {"crc", "open", "write", "return", "returned"}

\* Section #3 has been built without an exception
Section3Built == pc \in {"sect6"} \cup AfterSection6 \/ (pc = "raised" /\ raisedIn # "sect3")

Section6Built == pc \in AfterSection6 \/ (pc = "raised" /\ raisedIn \in {"open", "write"})

RecordBuilt == pc \in AfterRecord \/ (pc = "raised" /\ raisedIn \in {"open", "write"})

\* the export returned normally
Succeeded == pc \in {"return", "returned"}

\* the call has ended, by return or by exception
Ended == pc \in {"returned", "raised"}

\* fields of pointer entry k (0..11) of Section #0
PtrId(k) == UnpackLE(s[0], POINTER_FIELD_LEN * k + 1, 2)
PtrLength(k) == UnpackLE(s[0], POINTER_FIELD_LEN * k + 3, 4)
PtrIndex(k) == UnpackLE(s[0], POINTER_FIELD_LEN * k + 7, 4)

\* the section blocks of a record from position at on: id, first position (1-based,
\* counted from the size field) and length of each, read from the section headers
RECURSIVE BlocksFrom(_, _)
BlocksFrom(record, at) ==
    IF at + SECTION_HEADER_LEN - 1 > Len(record) THEN <<>>
    ELSE <<[id |-> UnpackLE(record, at, 2), start |-> at,
            length |-> UnpackLE(record, at + 2, 4)]>>
         \o BlocksFrom(record, at + UnpackLE(record, at + 2, 4))

Blocks == BlocksFrom(scp_ecg, SCPECG_HEADER_LEN + 1)

BlockIds == [b \in 1..Len(Blocks) |-> Blocks[b].id]

\* ending sample of lead i (1-based) as declared in Section #3
EndingSample(i) == UnpackLE(s[3], 2 + 9 * (i - 1) + 5, 4)

\* series byte count of lead i as declared in Section #6
DeclaredSeriesBytes(i) == UnpackLE(s[6], Len(Section6Header) + 2 * (i - 1) + 1, 2)

\* bytes of s[6] that follow the header and the per-lead byte counts
SeriesBytes == Len(s[6]) - Len(Section6Header) - 2 * n_leads

\* sample j of the k-th serie of s[6], each serie holding n samples
StoredSample(k, j, n) ==
    UnpackInt16(s[6], Len(Section6Header) + 2 * n_leads + 2 * n * (k - 1) + 2 * (j - 1) + 1)

OutOfInt16(v) == v < -32768 \/ v > 32767

\* some sample among the first min(n, 32767) of a lead is outside [-32768, 32767]
BadStoredSample ==
    \E i \in 1..n_leads : \E j \in 1..Min(n_samples, 32767) : OutOfInt16(Sample(data, i, j))

\* some sample after the first 32767 of a lead is outside [-32768, 32767]
BadDroppedSample ==
    \E i \in 1..n_leads : \E j \in 32768..n_samples : OutOfInt16(Sample(data, i, j))

OverTable == n_leads > Len(LEADS_ORDER_GENERAL)

-----------------------------------------------------------------------------
(* The claims.                                                             *)

\* C1: the pointer table is computed after the payloads of sections 1, 3 and 6 are
\* final: once all payloads are built, for every section id 1..11 the declared
\* length of its pointer entry is 0 if the final payload is empty and
\* SECTION_HEADER_LEN + payload length otherwise.
C1_PointerLengthsOfFinalPayloads ==
    Section6Built =>
        \A id \in 1..11 :
            PtrLength(id) = IF Len(s[id]) = 0 THEN 0 ELSE SECTION_HEADER_LEN + Len(s[id])

\* C2: the 12 pointer entries tile the record bytes after the size field: entry 0
\* starts at the first section block, each entry starts where the previous one
\* ends, every emitted block starts at the offset and has the length its entry
\* declares, and the last entry ends at the end of the record.
C2_PointersTileRecord ==
    RecordBuilt =>
        /\ Len(Blocks) > 0
        /\ PtrIndex(0) = Blocks[1].start
        /\ \A k \in 1..11 : PtrIndex(k) = PtrIndex(k - 1) + PtrLength(k - 1)
        /\ \A b \in 1..Len(Blocks) :
            /\ Blocks[b].id \in SectionIds
            /\ PtrIndex(Blocks[b].id) = Blocks[b].start
            /\ PtrLength(Blocks[b].id) = Blocks[b].length
        /\ PtrIndex(11) + PtrLength(11) = Len(scp_ecg) + 1

C4_SeriesCappedAtMaxSamples ==
    /\ Section6Built =>
        /\ SeriesBytes = n_leads * 2 * Min(n_samples, 32767)
        /\ \A i \in 1..n_leads :
            /\ DeclaredSeriesBytes(i) = 2 * Min(n_samples, 32767)
            /\ \A j \in 1..Min(n_samples, 32767) :
                StoredSample(i, j, Min(n_samples, 32767)) = Sample(data, i, j)
    /\ exc \in {"struct.error", "KeyError"} => BadStoredSample \/ OverTable

C4_Witness ==
    /\ pc = "record"
    /\ exc = "none"
    /\ n_samples > 32767
    /\ BadDroppedSample
    /\ DeclaredSeriesBytes(1) = 65534

\* C5: on a successful export the file is the 2-byte CRC followed by the record
\* size ++ sections, and the CRC recomputed with initial register 0xFFFF over
\* bytes 2..end of the file is the value stored in its first two bytes.
C5_CrcOverRecord ==
    Succeeded =>
        /\ SubSeq(file.bytes, 3, Len(file.bytes)) = scp_ecg
        /\ SubSeq(scp_ecg, 1, 4) = PackLE(size, 4)
        /\ UnpackLE(file.bytes, 1, 2)
             = crc_hqx(SubSeq(file.bytes, 3, Len(file.bytes)), 65535)

C5_Witness ==
    /\ pc = "returned"
    /\ n_leads > 0
    /\ n_samples > 0
    /\ Len(file.bytes) > 2 + SCPECG_HEADER_LEN
    /\ UnpackLE(file.bytes, 1, 2) # crc_hqx(SubSeq(file.bytes, 3, Len(file.bytes)), 0)

\* C6: the write is all-or-nothing: when export_scp has ended, the target path
\* holds the complete CRC ++ record stream or is as it was before the call.
C6_WriteAllOrNothing ==
    Ended =>
        \/ file = file0
        \/ file.exists /\ Len(scp_ecg) > 0 /\ file.bytes = crc \o scp_ecg

C8_EmptySectionsOmitted ==
    RecordBuilt =>
        /\ Len(s[0]) = 12 * POINTER_FIELD_LEN
        /\ \A k \in SectionIds : PtrId(k) = k
        /\ \A id \in SectionIds :
            /\ (Len(s[id]) = 0) = (id \in {2, 4, 5, 7, 8, 9, 10, 11})
            /\ (PtrLength(id) = 0) = (Len(s[id]) = 0)
            /\ (\A b \in 1..Len(Blocks) : Blocks[b].id # id) = (Len(s[id]) = 0)
        /\ BlockIds = <<0, 1, 3, 6>>

\* C9: the ending sample declared for each lead in Section 3 is the untruncated
\* sample count n; it equals the number of samples stored per lead in Section 6
\* exactly when n <= 32767.
C9_EndingSampleUntruncated ==
    /\ Section3Built =>
        \A i \in 1..n_leads : EndingSample(i) = n_samples
    /\ Section6Built =>
        \A i \in 1..n_leads :
            /\ (EndingSample(i) * 2 * n_leads = SeriesBytes) = (n_samples <= 32767)
            /\ n_samples > 32767 => SeriesBytes = 2 * n_leads * 32767

C9_Witness ==
    /\ pc = "record"
    /\ n_leads = 1
    /\ n_samples > 32767
    /\ EndingSample(1) = 32768

====
